---- MODULE Spec2Model ----
(***************************************************************************)
(* Model of the ThumbnailExporter editor plugin                            *)
(* (Source/ThumbnailExporter/Private/ThumbnailExporter.cpp).               *)
(*                                                                         *)
(* The plugin is a linear sequence of calls into the host engine.  The     *)
(* engine calls are modelled by what they do to the arguments the plugin   *)
(* hands them; what the engine decides on its own (does the render yield   *)
(* pixels, is an encoder available, does the disk accept the write) is a   *)
(* nondeterministic input of the call.  Strings are tuples of characters.  *)
(***************************************************************************)
EXTENDS Integers, Sequences, FiniteSets, TLC

(* ---------------------------------------------------------------- bounds *)
\* number of distinct non-empty compressed byte arrays the encoder can yield
MaxCompressed == 2

(* ------------------------------------------------------------- constants *)
\* const int32 ThumbnailSize = 256;
ThumbnailSize == 256

\* ImageWrapper->GetCompressed(95)
CompressionQuality == 95

\* INDEX_NONE of the engine's 0-based strings, for the 1-based tuples here
INDEX_NONE == 0

(* ---------------------------------------------------------------- inputs *)
EmptyString == <<>>

Ext_jpg == <<".", "j", "p", "g">>

\* "d.x/s/a.png", "d.x/s/a.jpeg": the same stem under two extensions, in a
\* directory nested in another one
Path_png == <<"d", ".", "x", "/", "s", "/", "a", ".", "p", "n", "g">>
Path_jpeg == <<"d", ".", "x", "/", "s", "/", "a", ".", "j", "p", "e", "g">>
\* "d.x/s/c": no extension in the file name, a dot in a directory name
Path_noext == <<"d", ".", "x", "/", "s", "/", "c">>

OutputPaths == {EmptyString, Path_png, Path_jpeg, Path_noext}

\* object paths: the empty one, two the registry resolves, one it does not
Asset_A == <<"A">>
Asset_B == <<"B">>
Asset_Missing == <<"M">>

ObjectPaths == {EmptyString, Asset_A, Asset_B, Asset_Missing}

\* the assets of the project, with the size of the asset's own image
AssetSize == (Asset_A :> 64) @@ (Asset_B :> 1024)

(* ------------------------------------------------------- string helpers *)
IsEmpty(s) == Len(s) = 0

IsSlashOrBackslash(c) == c = "/" \/ c = "\\"

SetMax(S) == CHOOSE m \in S : \A x \in S : x <= m

FindLastChar(s, c) ==
    LET I == {i \in 1..Len(s) : s[i] = c}
    IN  IF I = {} THEN INDEX_NONE ELSE SetMax(I)

FindLastSlash(s) ==
    LET I == {i \in 1..Len(s) : IsSlashOrBackslash(s[i])}
    IN  IF I = {} THEN INDEX_NONE ELSE SetMax(I)

\* FString::Left(Pos) for the 0-based position of the character at 1-based p
LeftOf(s, p) == SubSeq(s, 1, p - 1)

\* position of the dot that starts the extension of the file name, or
\* INDEX_NONE when the last dot belongs to a directory name or there is none
ExtensionPos(InPath) ==
    LET Pos == FindLastChar(InPath, ".")
        PathEndPos == FindLastSlash(InPath)
    IN  IF Pos # INDEX_NONE /\ PathEndPos # INDEX_NONE /\ Pos < PathEndPos
        THEN INDEX_NONE
        ELSE Pos

\* a slip for ChangeExtension: the extension is left as the caller gave it
ChangeExtension_Keep(InPath, InNewExtension) == InPath

\* a slip for ChangeExtension: the new extension is put after the old one
ChangeExtension_Append(InPath, InNewExtension) == InPath \o InNewExtension

\* FPaths::ChangeExtension: replaces the extension of the file name and
\* does nothing if the file name has no extension
ChangeExtension(InPath, InNewExtension) ==
    LET Pos == ExtensionPos(InPath)
    IN  IF Pos # INDEX_NONE
        THEN LeftOf(InPath, Pos)
             \o (IF Len(InNewExtension) > 0 /\ InNewExtension[1] # "."
                 THEN <<".">> ELSE <<>>)
             \o InNewExtension
        ELSE InPath

\* FPaths::GetPath: everything before the last slash, empty without one
GetPath(InPath) ==
    LET Pos == FindLastSlash(InPath)
    IN  IF Pos # INDEX_NONE THEN LeftOf(InPath, Pos) ELSE EmptyString

(* ---------------------------------------------------------- file system *)
RECURSIVE Ancestors(_)
\* the directories above Dir
Ancestors(Dir) ==
    LET Parent == GetPath(Dir)
    IN  IF IsEmpty(Parent) THEN {} ELSE {Parent} \cup Ancestors(Parent)

\* every path the export can write to, and the directories around them
TargetPaths == {ChangeExtension(p, Ext_jpg) : p \in OutputPaths \ {EmptyString}}

AllDirs == UNION {{GetPath(p)} \cup Ancestors(GetPath(p)) : p \in TargetPaths}

\* contents of a path: nothing, a byte array, or the rest of a failed write
NoFile == [fmt |-> "none", w |-> 0, h |-> 0, q |-> 0, id |-> 0]
Truncated == [fmt |-> "truncated", w |-> 0, h |-> 0, q |-> 0, id |-> 0]
EmptyBytes == [fmt |-> "empty", w |-> 0, h |-> 0, q |-> 0, id |-> 0]

\* a directory exists only inside an existing directory
DirsClosed(d) == \A x \in d : Ancestors(x) \subseteq d

(* ------------------------------------------------------ engine services *)
\* what the engine decides on its own during one export
\*   hasPixels     the render filled the image buffer
\*   wrapperValid  CreateImageWrapper returned an object
\*   compressed    which byte array the encoder yields, 0: none
\*   mkdirOk       the disk lets the directory be made
\*   save          what becomes of the write
\* A service that fails is drawn with the later ones at their first value:
\* they are not asked anything in that call.
EngineOutcomes ==
    { e \in [ hasPixels : BOOLEAN, wrapperValid : BOOLEAN,
              compressed : 0..MaxCompressed, mkdirOk : BOOLEAN,
              save : {"written", "refused", "truncated"} ] :
        /\ ~ e.hasPixels => ~ e.wrapperValid
        /\ ~ e.wrapperValid => e.compressed = 0
        /\ e.compressed = 0 => (~ e.mkdirOk /\ e.save = "refused") }

nullptr == <<>>

\* AssetRegistry.GetAssetByObjectPath(ObjectPath).GetAsset()
GetAsset(ObjectPath) ==
    IF ObjectPath \in DOMAIN AssetSize THEN ObjectPath ELSE nullptr

\* ThumbnailTools::RenderThumbnail stores the requested size in the
\* thumbnail and, when it can render, fills Width * Height BGRA pixels
RenderThumbnail(MyObject, InImageWidth, InImageHeight, hasPixels) ==
    [ ImageWidth |-> InImageWidth,
      ImageHeight |-> InImageHeight,
      Num |-> IF hasPixels THEN InImageWidth * InImageHeight * 4 ELSE 0 ]

\* IImageWrapperModule::CreateImageWrapper(Format)
CreateImageWrapper(Format, valid) ==
    [ valid |-> valid, fmt |-> Format, w |-> 0, h |-> 0 ]

\* IImageWrapper::SetRaw(Data, Num, Width, Height, BGRA, 8)
SetRaw(Wrapper, Num, Width, Height) ==
    [ Wrapper EXCEPT !.w = Width, !.h = Height ]

\* IImageWrapper::GetCompressed(Quality): the encoded image, or no bytes
GetCompressed(Wrapper, Quality, id) ==
    IF id = 0 THEN EmptyBytes
    ELSE [ fmt |-> Wrapper.fmt, w |-> Wrapper.w, h |-> Wrapper.h,
           q |-> Quality, id |-> id ]

\* TArray::Num() of a compressed byte array
NumBytes(Bytes) == IF Bytes.id = 0 THEN 0 ELSE 1 + Bytes.id

\* IFileManager::DirectoryExists
DirectoryExists(d, Dir) == Dir \in d

\* IFileManager::MakeDirectory(Dir, Tree): with Tree the missing parents are
\* made too, without it a missing parent makes the call fail
MakeDirectory(d, Dir, Tree, mkdirOk) ==
    IF mkdirOk /\ (Tree \/ Ancestors(Dir) \subseteq d)
    THEN [ dirs |-> d \cup {Dir} \cup (IF Tree THEN Ancestors(Dir) ELSE {}),
           ret |-> TRUE ]
    ELSE [ dirs |-> d, ret |-> FALSE ]

\* FFileHelper::SaveArrayToFile(Bytes, Filename): opens the file for
\* writing, which empties it, writes and closes.  It returns false when the
\* file cannot be opened (always so in a missing directory), leaving the
\* disk alone, or when the write or the close fails, leaving what it wrote.
SaveArrayToFile(f, d, Bytes, Filename, save) ==
    IF ~ DirectoryExists(d, GetPath(Filename)) \/ save = "refused"
    THEN [ files |-> f, ret |-> FALSE ]
    ELSE IF save = "truncated"
    THEN [ files |-> [f EXCEPT ![Filename] = Truncated], ret |-> FALSE ]
    ELSE [ files |-> [f EXCEPT ![Filename] = Bytes], ret |-> TRUE ]

(* ------------------------------------------------------- call recording *)
\* one engine call of an export, with the arguments the plugin passed
\* (id: which byte array is returned or passed, 0 when none is)
Step(fn, path, w, h, q, fmt, id, ret) ==
    [ fn |-> fn, path |-> path, w |-> w, h |-> h, q |-> q, fmt |-> fmt,
      id |-> id, ret |-> ret ]

\* UE_LOG(LogTemp, Verbosity, Format, Argument)
LogLine(Verbosity, Format, Argument) ==
    [ level |-> Verbosity, msg |-> Format, arg |-> Argument ]

BoolStr(b) == IF b THEN "true" ELSE "false"

\* the effect of one finished export
Done(outcome, trace, line, f, d, dAtSave) ==
    [ outcome |-> outcome, trace |-> trace, log |-> <<line>>,
      files |-> f, dirs |-> d, dirsAtSave |-> dAtSave ]

(* ------------------------------------------------ ExportThumbnailAsPNG *)
\* a slip for InvalidInput: only a call with both strings empty is refused
InvalidInput_Both(ObjectPath, OutputPath) ==
    IsEmpty(ObjectPath) /\ IsEmpty(OutputPath)

\* if (ObjectPath.IsEmpty() || OutputPath.IsEmpty())
InvalidInput(ObjectPath, OutputPath) ==
    IsEmpty(ObjectPath) \/ IsEmpty(OutputPath)

\* a slip for AssetMissing: the null check on the asset is left out
AssetMissing_Unchecked(MyObject) == FALSE

\* if (!MyObject)
AssetMissing(MyObject) == MyObject = nullptr

\* a slip for ThumbnailEmpty: the check on the pixel data is left out
ThumbnailEmpty_Unchecked(ObjectThumbnail) == FALSE

\* if (ObjectThumbnail.GetUncompressedImageData().Num() == 0)
ThumbnailEmpty(ObjectThumbnail) == ObjectThumbnail.Num = 0

\* if (!ImageWrapper.IsValid())
WrapperInvalid(ImageWrapper) == ~ ImageWrapper.valid

\* if (CompressedByteArray.Num() == 0)
CompressedEmpty(CompressedByteArray) == NumBytes(CompressedByteArray) = 0

\* a slip for RenderRequest: the render is asked for at the asset's own size
RenderRequest_AssetSize(MyObject, hasPixels) ==
    RenderThumbnail(MyObject, AssetSize[MyObject], AssetSize[MyObject], hasPixels)

\* ThumbnailTools::RenderThumbnail(MyObject, ThumbnailSize, ThumbnailSize,
\*                                 AlwaysFlush, nullptr, &ObjectThumbnail)
RenderRequest(MyObject, hasPixels) ==
    RenderThumbnail(MyObject, ThumbnailSize, ThumbnailSize, hasPixels)

\* a slip for CompressRequest: GetCompressed() with its default quality
CompressRequest_DefaultQuality(ImageWrapper, id) ==
    [ Quality |-> 0, Bytes |-> GetCompressed(ImageWrapper, 0, id) ]

\* ImageWrapper->GetCompressed(95): the quality asked for and the bytes got
CompressRequest(ImageWrapper, id) ==
    [ Quality |-> CompressionQuality,
      Bytes |-> GetCompressed(ImageWrapper, CompressionQuality, id) ]

\* a slip for EnsureDirectory: MakeDirectory without the Tree flag
EnsureDirectory_NoTree(d, OutputDirectory, mkdirOk) ==
    IF ~ DirectoryExists(d, OutputDirectory)
    THEN LET made == MakeDirectory(d, OutputDirectory, FALSE, mkdirOk)
         IN  [ dirs |-> made.dirs,
               trace |-> << Step("DirectoryExists", OutputDirectory, 0, 0, 0, "", 0, "false"),
                            Step("MakeDirectory", OutputDirectory, 0, 0, 0, "", 0,
                                 BoolStr(made.ret)) >> ]
    ELSE [ dirs |-> d,
           trace |-> << Step("DirectoryExists", OutputDirectory, 0, 0, 0, "", 0, "true") >> ]

\* if (!DirectoryExists(*OutputDirectory)) MakeDirectory(*OutputDirectory, true);
\* the result of MakeDirectory is not looked at
EnsureDirectory(d, OutputDirectory, mkdirOk) ==
    IF ~ DirectoryExists(d, OutputDirectory)
    THEN LET made == MakeDirectory(d, OutputDirectory, TRUE, mkdirOk)
         IN  [ dirs |-> made.dirs,
               trace |-> << Step("DirectoryExists", OutputDirectory, 0, 0, 0, "", 0, "false"),
                            Step("MakeDirectory", OutputDirectory, 0, 0, 0, "tree", 0,
                                 BoolStr(made.ret)) >> ]
    ELSE [ dirs |-> d,
           trace |-> << Step("DirectoryExists", OutputDirectory, 0, 0, 0, "", 0, "true") >> ]

\* a slip for SaveThumbnail: the result of SaveArrayToFile is not looked at
SaveThumbnail_Unchecked(f, d, trace, Bytes, NewOutputPath, save) ==
    LET saved == SaveArrayToFile(f, d, Bytes, NewOutputPath, save)
        t == Append(trace, Step("SaveArrayToFile", NewOutputPath, Bytes.w, Bytes.h,
                                Bytes.q, Bytes.fmt, Bytes.id, BoolStr(saved.ret)))
    IN  Done(IF saved.ret THEN "Exported" ELSE "SaveFailed", t,
             LogLine("Log", "Exported thumbnail to: %s", NewOutputPath),
             saved.files, d, d)

\* if (FFileHelper::SaveArrayToFile(CompressedByteArray, *NewOutputPath))
\*     log the export  else  warn about the failed save
SaveThumbnail(f, d, trace, Bytes, NewOutputPath, save) ==
    LET saved == SaveArrayToFile(f, d, Bytes, NewOutputPath, save)
        t == Append(trace, Step("SaveArrayToFile", NewOutputPath, Bytes.w, Bytes.h,
                                Bytes.q, Bytes.fmt, Bytes.id, BoolStr(saved.ret)))
    IN  IF saved.ret
        THEN Done("Exported", t,
                  LogLine("Log", "Exported thumbnail to: %s", NewOutputPath),
                  saved.files, d, d)
        ELSE Done("SaveFailed", t,
                  LogLine("Warning", "Failed to save thumbnail to: %s", NewOutputPath),
                  saved.files, d, d)

\* lines 73-116: from the encoder to the file, for a thumbnail that has pixels
EncodeAndSave(ObjectThumbnail, NewOutputPath, t2, e, f, d) ==
    LET Created == CreateImageWrapper("JPEG", e.wrapperValid)
        t3 == Append(t2, Step("CreateImageWrapper", <<>>, 0, 0, 0, "JPEG", 0,
                              BoolStr(Created.valid)))
    IN  IF WrapperInvalid(Created)
        THEN Done("NoImageWrapper", t3,
                  LogLine("Warning", "Failed to create ImageWrapper!", <<>>), f, d, d)
        ELSE
    LET ImageWrapper == SetRaw(Created, ObjectThumbnail.Num,
                               ObjectThumbnail.ImageWidth, ObjectThumbnail.ImageHeight)
        t4 == Append(t3, Step("SetRaw", <<>>, ObjectThumbnail.ImageWidth,
                              ObjectThumbnail.ImageHeight, 0, "BGRA", 0, ""))
        Compressed == CompressRequest(ImageWrapper, e.compressed)
        CompressedByteArray == Compressed.Bytes
        t5 == Append(t4, Step("GetCompressed", <<>>, 0, 0, Compressed.Quality, "",
                              CompressedByteArray.id,
                              BoolStr(NumBytes(CompressedByteArray) # 0)))
    IN  IF CompressedEmpty(CompressedByteArray)
        THEN Done("CompressFailed", t5,
                  LogLine("Warning", "Failed to compress image data!", <<>>), f, d, d)
        ELSE
    LET OutputDirectory == GetPath(NewOutputPath)
        ensured == EnsureDirectory(d, OutputDirectory, e.mkdirOk)
    IN  SaveThumbnail(f, ensured.dirs, t5 \o ensured.trace, CompressedByteArray,
                      NewOutputPath, e.save)

\* void UThumbnailExporter::ExportThumbnailAsPNG(FString ObjectPath,
\*                                               FString OutputPath)
\* on the files f and directories d, with the engine deciding e
RunExport(ObjectPath, OutputPath, e, f, d) ==
    IF InvalidInput(ObjectPath, OutputPath)
    THEN Done("EmptyInput", <<>>,
              LogLine("Warning", "Invalid input parameters!", <<>>), f, d, d)
    ELSE
    LET NewOutputPath == ChangeExtension(OutputPath, Ext_jpg)
        MyObject == GetAsset(ObjectPath)
        t1 == << Step("GetAssetByObjectPath", ObjectPath, 0, 0, 0, "", 0,
                      IF MyObject = nullptr THEN "null" ELSE "object") >>
    IN  IF AssetMissing(MyObject)
        THEN Done("AssetNotFound", t1,
                  LogLine("Warning", "Asset not found at path: %s", ObjectPath), f, d, d)
        ELSE
    LET ObjectThumbnail == RenderRequest(MyObject, e.hasPixels)
        t2 == Append(t1, Step("RenderThumbnail", MyObject, ObjectThumbnail.ImageWidth,
                              ObjectThumbnail.ImageHeight, 0, "", 0,
                              BoolStr(ObjectThumbnail.Num # 0)))
    IN  IF ThumbnailEmpty(ObjectThumbnail)
        THEN Done("EmptyThumbnail", t2,
                  LogLine("Warning", "No thumbnail data for asset: %s", ObjectPath),
                  f, d, d)
        ELSE EncodeAndSave(ObjectThumbnail, NewOutputPath, t2, e, f, d)

(* -------------------------------------------------------- state machine *)
VARIABLES
    loaded,   \* the module is loaded in the editor
    files,    \* the contents of every path an export can write to
    dirs,     \* the directories that exist
    log,      \* the log lines the last operation emitted
    call,     \* the last operation: name, arguments, engine calls, outcome,
              \* and the disk as it was before it
    prev      \* the output path of the operation before it when that was an
              \* export that wrote its file, else the empty string

vars == <<loaded, files, dirs, log, call, prev>>

\* the record of an operation that is not an export
Plain(op) ==
    [ op |-> op, ObjectPath |-> EmptyString, OutputPath |-> EmptyString,
      outcome |-> "none", trace |-> <<>>, filesBefore |-> files,
      dirsBefore |-> dirs, dirsAtSave |-> dirs ]

\* before the editor loads the module: an empty output tree on a disk that
\* may already hold some of the directories
Init ==
    /\ loaded = FALSE
    /\ files = [p \in TargetPaths |-> NoFile]
    /\ dirs \in {d \in SUBSET AllDirs : DirsClosed(d)}
    /\ log = <<>>
    /\ call = Plain("none")
    /\ prev = EmptyString

Exported(c) == c.op = "ExportThumbnailAsPNG" /\ c.outcome = "Exported"

Shift == prev' = IF Exported(call) THEN call.OutputPath ELSE EmptyString

\* void FThumbnailExporterModule::StartupModule()
StartupModule ==
    /\ ~ loaded
    /\ loaded' = TRUE
    /\ log' = << LogLine("Warning", "ThumbnailExporter Plugin Loaded Successfully!", <<>>) >>
    /\ call' = Plain("StartupModule")
    /\ Shift
    /\ UNCHANGED <<files, dirs>>

\* void FThumbnailExporterModule::ShutdownModule()
ShutdownModule ==
    /\ loaded
    /\ loaded' = FALSE
    /\ log' = << LogLine("Warning", "ThumbnailExporter Plugin Unloaded!", <<>>) >>
    /\ call' = Plain("ShutdownModule")
    /\ Shift
    /\ UNCHANGED <<files, dirs>>

\* void UThumbnailExporter::PrintTestMessage()
PrintTestMessage ==
    /\ loaded
    /\ log' = << LogLine("Warning",
                         "ThumbnailExporter Test Message: Plugin is Active and Working!",
                         <<>>) >>
    /\ call' = Plain("PrintTestMessage")
    /\ Shift
    /\ UNCHANGED <<loaded, files, dirs>>

\* one call of UThumbnailExporter::ExportThumbnailAsPNG from a script
ExportThumbnailAsPNG ==
    /\ loaded
    /\ \E ObjectPath \in ObjectPaths, OutputPath \in OutputPaths, e \in EngineOutcomes :
         \E r \in {RunExport(ObjectPath, OutputPath, e, files, dirs)} :
             /\ files' = r.files
             /\ dirs' = r.dirs
             /\ log' = r.log
             /\ call' = [ op |-> "ExportThumbnailAsPNG",
                          ObjectPath |-> ObjectPath, OutputPath |-> OutputPath,
                          outcome |-> r.outcome, trace |-> r.trace,
                          filesBefore |-> files, dirsBefore |-> dirs,
                          dirsAtSave |-> r.dirsAtSave ]
    /\ Shift
    /\ UNCHANGED loaded

Next ==
    \/ StartupModule
    \/ ShutdownModule
    \/ PrintTestMessage
    \/ ExportThumbnailAsPNG

Spec == Init /\ [][Next]_vars

(* ------------------------------------------------------------ properties *)
IsExport == call.op = "ExportThumbnailAsPNG"

\* the engine calls of the last export that are calls of fn
StepsOf(fn) == {i \in DOMAIN call.trace : call.trace[i].fn = fn}

Called(fn) == StepsOf(fn) # {}

\* fn was called and returned ret
Returned(fn, ret) == \E i \in StepsOf(fn) : call.trace[i].ret = ret

DiskUnchanged == files = call.filesBefore /\ dirs = call.dirsBefore

\* "d.x/s/a.jpg"
Path_jpg == <<"d", ".", "x", "/", "s", "/", "a", ".", "j", "p", "g">>

\* the output paths with their extension swapped for .jpg, written out
SwappedPath == (Path_png :> Path_jpg) @@ (Path_jpeg :> Path_jpg) @@ (Path_noext :> Path_noext)

\* the contents of path p, NoFile also for a path no export can write to
FileAt(f, p) == IF p \in DOMAIN f THEN f[p] ELSE NoFile

\* the byte array the last export handed to SaveArrayToFile
SavedBytes ==
    LET s == call.trace[CHOOSE i \in StepsOf("SaveArrayToFile") : TRUE]
    IN  [ fmt |-> s.fmt, w |-> s.w, h |-> s.h, q |-> s.q, id |-> s.id ]

InvalidInputLine == LogLine("Warning", "Invalid input parameters!", <<>>)

(* C1: an export called with an empty ObjectPath or an empty OutputPath     *)
(* makes no engine call at all (no asset lookup, render, directory or file  *)
(* request), logs the one warning 'Invalid input parameters!' and leaves    *)
(* every file and directory as it was.                                      *)
C1_EmptyInputIsNoOp ==
    (IsExport /\ (IsEmpty(call.ObjectPath) \/ IsEmpty(call.OutputPath)))
        => /\ call.trace = <<>>
           /\ log = << InvalidInputLine >>
           /\ DiskUnchanged

\* an export with an asset that resolves and an empty output path, made on
\* a disk that already holds an exported file
C1_Witness ==
    /\ IsExport
    /\ call.ObjectPath = Asset_A
    /\ IsEmpty(call.OutputPath)
    /\ \E p \in DOMAIN files : files[p].fmt = "JPEG"
    /\ log = << InvalidInputLine >>

\* the asset of the last export resolved and its render yielded pixels
RenderedThumbnail ==
    /\ IsExport
    /\ ~ IsEmpty(call.ObjectPath) /\ ~ IsEmpty(call.OutputPath)
    /\ GetAsset(call.ObjectPath) # nullptr
    /\ Returned("RenderThumbnail", "true")

(* C2 as stated: whenever the asset resolves and the render yields pixels,  *)
(* a file exists at the extension-swapped path when the call returns,       *)
(* whatever the encoder, the compressor and the file write do.              *)
C2_AlwaysProducesFile ==
    RenderedThumbnail => FileAt(files, SwappedPath[call.OutputPath]) # NoFile

(* C2 amended: whenever the asset resolves, the render yields pixels, the   *)
(* encoder is created, the compression yields bytes and the file write      *)
(* succeeds, the file at the extension-swapped path holds the compressed    *)
(* bytes when the call returns, whatever the directory creation did.        *)
C2_ProducesFileWhenWritten ==
    ( /\ RenderedThumbnail
      /\ Returned("CreateImageWrapper", "true")
      /\ Returned("GetCompressed", "true")
      /\ Returned("SaveArrayToFile", "true") )
        => /\ FileAt(files, SwappedPath[call.OutputPath]) = SavedBytes
           /\ SavedBytes.id \in 1..MaxCompressed

\* a .png output path written as .jpg into a directory the call had to make
C2_Witness ==
    /\ RenderedThumbnail
    /\ call.OutputPath = Path_png
    /\ Returned("SaveArrayToFile", "true")
    /\ Returned("MakeDirectory", "true")
    /\ FileAt(files, Path_jpg).fmt = "JPEG"
    /\ FileAt(call.filesBefore, Path_jpg) = NoFile

Ext_png == <<".", "p", "n", "g">>

EndsWith(s, suffix) ==
    /\ Len(s) >= Len(suffix)
    /\ SubSeq(s, Len(s) - Len(suffix) + 1, Len(s)) = suffix

(* C3: every path an export writes to is ChangeExtension(OutputPath,        *)
(* ".jpg"), ends in .jpg and not in .png, whether OutputPath ends in .png,  *)
(* in another extension or has none, and the bytes written come from the    *)
(* JPEG encoder.                                                            *)
C3_WritesOnlyJpgPath ==
    IsExport =>
        \A i \in StepsOf("SaveArrayToFile") :
            /\ call.trace[i].path = ChangeExtension(call.OutputPath, Ext_jpg)
            /\ EndsWith(call.trace[i].path, Ext_jpg)
            /\ ~ EndsWith(call.trace[i].path, Ext_png)
            /\ call.trace[i].fmt = "JPEG"

\* the directory of the path the last export writes to
OutputDirectoryOf(OutputPath) == GetPath(SwappedPath[OutputPath])

\* the engine calls about the output directory come before the write, the
\* directory is tested once, and made (once, with its parents) exactly when
\* the test found it missing
DirectoryStepsInOrder ==
    \A s \in StepsOf("SaveArrayToFile") :
        /\ Cardinality(StepsOf("DirectoryExists")) = 1
        /\ \A i \in StepsOf("DirectoryExists") :
              /\ i < s
              /\ call.trace[i].path = OutputDirectoryOf(call.OutputPath)
              /\ call.trace[i].ret = BoolStr(call.trace[i].path \in call.dirsBefore)
        /\ Cardinality(StepsOf("MakeDirectory")) =
              (IF OutputDirectoryOf(call.OutputPath) \in call.dirsBefore THEN 0 ELSE 1)
        /\ \A i \in StepsOf("MakeDirectory") :
              /\ i < s
              /\ \A j \in StepsOf("DirectoryExists") : j < i
              /\ call.trace[i].path = OutputDirectoryOf(call.OutputPath)
              /\ call.trace[i].fmt = "tree"

(* C4 as stated: in every export that reaches the file write, the           *)
(* directory test and, for a missing directory, one recursive MakeDirectory *)
(* come before the write, and the directory exists when the write is        *)
(* attempted.                                                               *)
C4_DirectoryExistsAtWrite ==
    (IsExport /\ Called("SaveArrayToFile"))
        => /\ DirectoryStepsInOrder
           /\ OutputDirectoryOf(call.OutputPath) \in call.dirsAtSave

(* C4 amended: in every export that reaches the file write, the directory   *)
(* test and, for a missing directory, one recursive MakeDirectory come      *)
(* before the write; the directory and all its parents exist when the write *)
(* is attempted if the directory existed before the call or MakeDirectory   *)
(* returned true; the result of MakeDirectory is ignored, so after a failed *)
(* MakeDirectory the write is attempted without the directory.              *)
C4_DirectoryRequestedBeforeWrite ==
    (IsExport /\ Called("SaveArrayToFile"))
        => /\ DirectoryStepsInOrder
           /\ ( \/ OutputDirectoryOf(call.OutputPath) \in call.dirsBefore
                \/ Returned("MakeDirectory", "true") )
                => ( {OutputDirectoryOf(call.OutputPath)}
                     \cup Ancestors(OutputDirectoryOf(call.OutputPath)) )
                       \subseteq call.dirsAtSave
           /\ Returned("MakeDirectory", "false")
                => OutputDirectoryOf(call.OutputPath) \notin call.dirsAtSave

\* a nested output directory made together with its missing parent, then
\* written into
C4_Witness ==
    /\ IsExport
    /\ call.dirsBefore = {}
    /\ Returned("MakeDirectory", "true")
    /\ Returned("SaveArrayToFile", "true")
    /\ Cardinality(dirs) = 2

(* C5: every render is requested at 256x256, the width and height handed to *)
(* the encoder's SetRaw are 256 and 256, and so are those of every byte     *)
(* array written and of every exported file, whatever the asset's own size. *)
C5_Always256 ==
    /\ IsExport =>
          /\ \A i \in StepsOf("RenderThumbnail") \cup StepsOf("SetRaw")
                      \cup StepsOf("SaveArrayToFile") :
                call.trace[i].w = 256 /\ call.trace[i].h = 256
    /\ \A p \in DOMAIN files :
          files[p].fmt = "JPEG" => (files[p].w = 256 /\ files[p].h = 256)

\* an asset of size 1024 exported after one of size 64, the file written
C5_Witness ==
    /\ IsExport
    /\ call.ObjectPath = Asset_B
    /\ AssetSize[Asset_B] = 1024
    /\ Called("SetRaw")
    /\ Returned("SaveArrayToFile", "true")
    /\ \E p \in DOMAIN files : files[p].fmt = "JPEG" /\ files[p] # SavedBytes

\* the failure modes of the last export, told from what the engine returned
FailedEmptyInput == IsEmpty(call.ObjectPath) \/ IsEmpty(call.OutputPath)
FailedAssetNotFound == Returned("GetAssetByObjectPath", "null")
FailedEmptyThumbnail == Returned("RenderThumbnail", "false")
FailedNoEncoder == Returned("CreateImageWrapper", "false")
FailedCompression == Returned("GetCompressed", "false")
FailedWrite == Returned("SaveArrayToFile", "false")

\* one of the five failure modes that come before the file write
FailedBeforeWrite ==
    \/ FailedEmptyInput
    \/ FailedAssetNotFound
    \/ FailedEmptyThumbnail
    \/ FailedNoEncoder
    \/ FailedCompression

Failed == FailedBeforeWrite \/ FailedWrite

\* no engine service is asked twice in one call
NoRetry ==
    \A i, j \in DOMAIN call.trace :
        call.trace[i].fn = call.trace[j].fn => i = j

OneLogLine == Len(log) = 1

(* C6 as stated: in each of the six failure modes the export leaves the     *)
(* files and the set of directories exactly as they were, retries nothing   *)
(* and emits a log line.                                                    *)
C6_EveryFailureIsNoOp ==
    (IsExport /\ Failed) => (DiskUnchanged /\ NoRetry /\ OneLogLine)

(* C6 amended: in each of the five failure modes before the file write the  *)
(* export leaves the files and the set of directories exactly as they were; *)
(* after a failed file write the output directory, if it was missing, may   *)
(* have been created (with its parents) and the output path may hold the    *)
(* truncated rest of the write, and nothing else differs; in all six modes  *)
(* nothing is retried and one Warning line is logged.                       *)
C6_FailureLeavesDisk ==
    (IsExport /\ Failed) =>
        /\ NoRetry
        /\ OneLogLine /\ log[1].level = "Warning"
        /\ FailedBeforeWrite => DiskUnchanged
        /\ (FailedWrite /\ ~ FailedBeforeWrite) =>
              /\ \A p \in DOMAIN files :
                    \/ files[p] = call.filesBefore[p]
                    \/ p = SwappedPath[call.OutputPath] /\ files[p] = Truncated
              /\ \/ dirs = call.dirsBefore
                 \/ /\ OutputDirectoryOf(call.OutputPath) \notin call.dirsBefore
                    /\ dirs = call.dirsBefore
                              \cup {OutputDirectoryOf(call.OutputPath)}
                              \cup Ancestors(OutputDirectoryOf(call.OutputPath))

\* a failed write that left the freshly made directories behind
C6_Witness ==
    /\ IsExport
    /\ FailedWrite
    /\ call.dirsBefore = {}
    /\ Cardinality(dirs) = 2
    /\ files = call.filesBefore

(* C7 as stated: after any sequence of exports, a last export that failed   *)
(* has no file at its .jpg output path and one that succeeded has one.      *)
\* (the truncated rest of a failed write is not counted as an output file)
C7_FileExistsIffSucceeded ==
    (IsExport /\ ~ IsEmpty(call.OutputPath)) =>
        /\ Failed => FileAt(files, SwappedPath[call.OutputPath]).fmt # "JPEG"
        /\ ~ Failed => FileAt(files, SwappedPath[call.OutputPath]).fmt = "JPEG"

(* C7 amended: a last export that succeeded has its bytes in the file at    *)
(* its output path; one that failed before the file write leaves that path  *)
(* as it was before the call, so no file exists there unless an earlier     *)
(* call left one; one whose write failed leaves that path as it was or      *)
(* holding the truncated rest of the write.                                 *)
C7_FileAfterCall ==
    (IsExport /\ ~ IsEmpty(call.OutputPath)) =>
        LET p == SwappedPath[call.OutputPath]
        IN  /\ ~ Failed => (FileAt(files, p) = SavedBytes /\ SavedBytes.fmt = "JPEG")
            /\ FailedBeforeWrite => FileAt(files, p) = FileAt(call.filesBefore, p)
            /\ FailedWrite =>
                  FileAt(files, p) \in {FileAt(call.filesBefore, p), Truncated}
            /\ (Failed /\ FileAt(call.filesBefore, p) = NoFile)
                  => FileAt(files, p) \in {NoFile, Truncated}

\* a failed export to a path where an earlier export left its file
C7_Witness ==
    /\ IsExport
    /\ call.OutputPath = Path_png
    /\ FailedCompression
    /\ FileAt(files, Path_jpg).fmt = "JPEG"

(* C8: every export that asks the encoder for compressed bytes asks with    *)
(* quality 95 and asks once, whatever the object path, the output path and  *)
(* the rendered image; every byte array written and every exported file was *)
(* compressed at 95.                                                        *)
C8_QualityAlways95 ==
    /\ IsExport =>
          /\ Cardinality(StepsOf("GetCompressed")) <= 1
          /\ \A i \in StepsOf("GetCompressed") \cup StepsOf("SaveArrayToFile") :
                call.trace[i].q = 95
          /\ Called("SetRaw") => Called("GetCompressed")
    /\ \A p \in DOMAIN files : files[p].fmt = "JPEG" => files[p].q = 95

\* the encoder asked for the bytes of asset B for a path without extension
C8_Witness ==
    /\ IsExport
    /\ call.ObjectPath = Asset_B
    /\ call.OutputPath = Path_noext
    /\ Returned("GetCompressed", "true")
    /\ FileAt(files, Path_noext).q = 95

\* the names of the engine calls of the last export, in the order made
FnSeq == [i \in DOMAIN call.trace |-> call.trace[i].fn]

IsPrefix(s, t) == Len(s) <= Len(t) /\ SubSeq(t, 1, Len(s)) = s

StepOrder ==
    << "GetAssetByObjectPath", "RenderThumbnail", "CreateImageWrapper", "SetRaw",
       "GetCompressed", "DirectoryExists", "MakeDirectory", "SaveArrayToFile" >>

\* the same with the directory found in place
StepOrderNoMake ==
    << "GetAssetByObjectPath", "RenderThumbnail", "CreateImageWrapper", "SetRaw",
       "GetCompressed", "DirectoryExists", "SaveArrayToFile" >>

\* step i is a check of the export that failed
CheckFailedAt(i) ==
    \/ call.trace[i].fn = "GetAssetByObjectPath" /\ call.trace[i].ret = "null"
    \/ call.trace[i].fn = "RenderThumbnail" /\ call.trace[i].ret = "false"
    \/ call.trace[i].fn = "CreateImageWrapper" /\ call.trace[i].ret = "false"
    \/ call.trace[i].fn = "GetCompressed" /\ call.trace[i].ret = "false"

\* the one line the last export has to log
ExpectedLine ==
    IF FailedEmptyInput THEN InvalidInputLine
    ELSE IF FailedAssetNotFound
    THEN LogLine("Warning", "Asset not found at path: %s", call.ObjectPath)
    ELSE IF FailedEmptyThumbnail
    THEN LogLine("Warning", "No thumbnail data for asset: %s", call.ObjectPath)
    ELSE IF FailedNoEncoder
    THEN LogLine("Warning", "Failed to create ImageWrapper!", <<>>)
    ELSE IF FailedCompression
    THEN LogLine("Warning", "Failed to compress image data!", <<>>)
    ELSE IF FailedWrite
    THEN LogLine("Warning", "Failed to save thumbnail to: %s", SwappedPath[call.OutputPath])
    ELSE LogLine("Log", "Exported thumbnail to: %s", SwappedPath[call.OutputPath])

(* C9: an export makes its engine calls in one fixed order (asset lookup,   *)
(* render, encoder creation, SetRaw, compression, directory test and        *)
(* creation, file write), makes none with an invalid input and none after   *)
(* the first check that fails, runs on to the file write when no check      *)
(* fails, and logs exactly one line: the Warning of the first failed check  *)
(* or of the failed write, or the Log line 'Exported thumbnail to' exactly  *)
(* when the write succeeded.                                                *)
C9_FixedOrderOneLogLine ==
    IsExport =>
        /\ IsPrefix(FnSeq, StepOrder) \/ IsPrefix(FnSeq, StepOrderNoMake)
        /\ FailedEmptyInput => call.trace = <<>>
        /\ \A i \in DOMAIN call.trace : CheckFailedAt(i) => i = Len(call.trace)
        /\ ~ FailedEmptyInput =>
              /\ call.trace # <<>>
              /\ \/ CheckFailedAt(Len(call.trace))
                 \/ call.trace[Len(call.trace)].fn = "SaveArrayToFile"
        /\ log = << ExpectedLine >>
        /\ log[1].level = "Log" <=> Returned("SaveArrayToFile", "true")
        /\ log[1].level \in {"Log", "Warning"}

\* an export stopped by the compression: five engine calls, no directory
\* request, no write, the compression warning
C9_Witness ==
    /\ IsExport
    /\ FailedCompression
    /\ Len(call.trace) = 5
    /\ log = << LogLine("Warning", "Failed to compress image data!", <<>>) >>
    /\ ~ Called("DirectoryExists")

\* two different paths with an extension that are equal up to it
DifferOnlyInExtension(p, q) ==
    /\ p # q
    /\ ExtensionPos(p) # INDEX_NONE
    /\ ExtensionPos(q) # INDEX_NONE
    /\ LeftOf(p, ExtensionPos(p)) = LeftOf(q, ExtensionPos(q))

\* the last operation is an export and the one before it was an export that
\* wrote its file, for an output path that differs only in its extension
SecondOfTwo ==
    /\ IsExport
    /\ prev # EmptyString
    /\ DifferOnlyInExtension(prev, call.OutputPath)

\* the files that exist at the paths the two calls were given or wrote to
FilesOfTwo ==
    {p \in {prev, call.OutputPath, Path_jpg} : FileAt(files, p) # NoFile}

\* after the two calls succeeded, one file exists for them, with the bytes
\* of the later one, and the later call logged no warning
LaterOverwrites ==
    (SecondOfTwo /\ ~ Failed) =>
        /\ FilesOfTwo = {Path_jpg}
        /\ FileAt(files, Path_jpg) = SavedBytes
        /\ \A i \in DOMAIN log : log[i].level # "Warning"

(* C10 as stated: of two exports whose output paths differ only in the      *)
(* extension, made one after the other, the second overwrites the one file  *)
(* of the first without a warning when it succeeds, and leaves that file in *)
(* place unchanged when it fails.                                           *)
C10_SameTargetFailureKeepsFile ==
    /\ LaterOverwrites
    /\ (SecondOfTwo /\ Failed) =>
          FileAt(files, Path_jpg) = FileAt(call.filesBefore, Path_jpg)

(* C10 amended: of two exports whose output paths differ only in the        *)
(* extension, made one after the other, the second overwrites the one file  *)
(* of the first without a warning when it succeeds; it leaves that file in  *)
(* place unchanged when it fails before the file write, and unchanged or    *)
(* truncated when its file write fails.                                     *)
C10_SameTarget ==
    /\ LaterOverwrites
    /\ (SecondOfTwo /\ FailedBeforeWrite) =>
          /\ FileAt(files, Path_jpg) = FileAt(call.filesBefore, Path_jpg)
          /\ FileAt(files, Path_jpg).fmt = "JPEG"
    /\ (SecondOfTwo /\ FailedWrite) =>
          FileAt(files, Path_jpg) \in {FileAt(call.filesBefore, Path_jpg), Truncated}

\* X.png exported, then X.jpeg exported over it with other bytes
C10_Witness ==
    /\ SecondOfTwo
    /\ prev = Path_png
    /\ call.OutputPath = Path_jpeg
    /\ ~ Failed
    /\ FileAt(call.filesBefore, Path_jpg).fmt = "JPEG"
    /\ FileAt(files, Path_jpg) # FileAt(call.filesBefore, Path_jpg)

====
